---- MODULE Spec2Model ----
(***************************************************************************)
(* The transcoding layer of eventsourcing: Transcoder.serialize and        *)
(* Transcoder.deserialize, the ObjectJSONEncoder / ObjectJSONDecoder value *)
(* codec, and the stored-entity-id helpers, as a state machine in which    *)
(* threads call a shared Transcoder one statement group at a time.         *)
(***************************************************************************)
EXTENDS Integers, Sequences, FiniteSets, TLC

(***************************************************************************)
(* Bounds of the input families.                                           *)
(***************************************************************************)
MaxInt == 1
MaxDay == 2
MaxSec == 1
MaxEntity == 1

(***************************************************************************)
(* Python values.  Every value is a record with a "kind"; an exception in  *)
(* flight is the value Raise(exc).                                         *)
(***************************************************************************)
PInt(n) == [kind |-> "int", n |-> n]
PStr(s) == [kind |-> "str", s |-> s]
PDateTime(day, sec, tz) == [kind |-> "datetime", day |-> day, sec |-> sec, tz |-> tz]
PDate(day) == [kind |-> "date", day |-> day]
PArray(ndim, buf) == [kind |-> "ndarray", ndim |-> ndim, buf |-> buf]
PObject(cls, attrs) == [kind |-> "object", cls |-> cls, attrs |-> attrs]
PDict(items) == [kind |-> "dict", items |-> items]
Raise(exc) == [kind |-> "raise", exc |-> exc]

Empty == [k \in {} |-> PInt(0)]

IsRaise(v) == v.kind = "raise"

(***************************************************************************)
(* JSON text, as its syntax tree: what json.dumps writes and json.loads    *)
(* reads.                                                                  *)
(***************************************************************************)
JNum(n) == [kind |-> "json", j |-> "num", n |-> n]
JStr(s) == [kind |-> "json", j |-> "str", s |-> s]
JObj(members) == [kind |-> "json", j |-> "obj", members |-> members]

(***************************************************************************)
(* The classes the interpreter can load.  required/accepted/defaults       *)
(* describe __init__'s keyword parameters; __init__ stores each parameter  *)
(* as the attribute of the same name.                                      *)
(***************************************************************************)
ClassTable ==
    [c \in {"Created", "Secret", "Point", "Bag", "Opt", "ndarray", "helper"} |->
        CASE c = "Created" ->
                [module |-> "m.example", qualname |-> <<"Example", "Created">>,
                 is_type |-> TRUE, is_event |-> TRUE, always_encrypt |-> FALSE,
                 required |-> {}, accepted |-> {}, defaults |-> Empty]
          [] c = "Secret" ->
                [module |-> "m.example", qualname |-> <<"Vault", "Sealed">>,
                 is_type |-> TRUE, is_event |-> TRUE, always_encrypt |-> TRUE,
                 required |-> {}, accepted |-> {}, defaults |-> Empty]
          [] c = "Point" ->
                [module |-> "m.values", qualname |-> <<"Point">>,
                 is_type |-> TRUE, is_event |-> FALSE, always_encrypt |-> FALSE,
                 required |-> {"x"}, accepted |-> {"x"}, defaults |-> Empty]
          [] c = "Bag" ->
                [module |-> "m.values", qualname |-> <<"Bag">>,
                 is_type |-> TRUE, is_event |-> FALSE, always_encrypt |-> FALSE,
                 required |-> {}, accepted |-> {}, defaults |-> Empty]
          [] c = "Opt" ->
                [module |-> "m.values", qualname |-> <<"Opt">>,
                 is_type |-> TRUE, is_event |-> FALSE, always_encrypt |-> FALSE,
                 required |-> {}, accepted |-> {"y"},
                 defaults |-> [k \in {"y"} |-> PInt(0)]]
          [] c = "ndarray" ->
                [module |-> "numpy", qualname |-> <<"ndarray">>,
                 is_type |-> TRUE, is_event |-> FALSE, always_encrypt |-> FALSE,
                 required |-> {"shape"}, accepted |-> {"shape"}, defaults |-> Empty]
          [] OTHER ->
                [module |-> "m.values", qualname |-> <<"helper">>,
                 is_type |-> FALSE, is_event |-> FALSE, always_encrypt |-> FALSE,
                 required |-> {}, accepted |-> {}, defaults |-> Empty]]

ClassKeys == DOMAIN ClassTable

RECURSIVE JoinDots(_)
JoinDots(parts) ==
    IF Len(parts) = 1 THEN parts[1]
    ELSE parts[1] \o "." \o JoinDots(Tail(parts))

\* cls.__qualname__ and cls.__module__
QualName(c) == JoinDots(ClassTable[c].qualname)
ModuleOf(c) == ClassTable[c].module

\* type(obj) of a value the encoder's generic hook sees
ClassOf(obj) == IF obj.kind = "ndarray" THEN "ndarray" ELSE obj.cls

\* cls(**kwargs): the constructor call, or the TypeError it raises
Construct(c, kwargs) ==
    LET d == ClassTable[c] IN
    IF ~d.is_type THEN (IF kwargs = Empty THEN PInt(0) ELSE Raise("TypeError"))
    ELSE IF d.required \subseteq DOMAIN kwargs /\ DOMAIN kwargs \subseteq d.accepted
    THEN PObject(c, [a \in d.accepted |->
                        IF a \in DOMAIN kwargs THEN kwargs[a] ELSE d.defaults[a]])
    ELSE Raise("TypeError")

(***************************************************************************)
(* ObjectJSONEncoder                                                       *)
(***************************************************************************)
Digit == <<"0", "1", "2", "3", "4", "5", "6", "7", "8", "9">>

\* obj.strftime('%Y-%m-%dT%H:%M:%S.%f%z'): %z is empty for a naive datetime
Strftime(obj) ==
    "2020-01-0" \o Digit[obj.day + 1] \o "T00:00:0" \o Digit[obj.sec + 1]
        \o ".000000" \o obj.tz

\* obj.isoformat()
IsoFormat(obj) == "2020-01-0" \o Digit[obj.day + 1]

\* json.dumps(numpy.save(obj) bytes decoded as latin-1)
NumpySave(obj) == "NPY1:" \o obj.buf

IsDateTime(obj) == obj.kind = "datetime"
\* datetime.datetime is a subclass of datetime.date
IsDate(obj) == obj.kind \in {"date", "datetime"}

EncodeDateTime(obj) == PDict("ISO8601_datetime" :> PStr(Strftime(obj)))
EncodeDate(obj) == PDict("ISO8601_date" :> PStr(IsoFormat(obj)))
EncodeArray(obj) == PDict("__ndarray__" :> PStr(NumpySave(obj)))
EncodeObject(obj) ==
    PDict(("__class__" :> PStr(QualName(ClassOf(obj))))
          @@ ("__module__" :> PStr(ModuleOf(ClassOf(obj)))))

EncoderDefaultDateFirst(obj, np) ==
    IF IsDate(obj) THEN EncodeDate(obj)
    ELSE IF IsDateTime(obj) THEN EncodeDateTime(obj)
    ELSE IF np /\ obj.kind = "ndarray" /\ obj.ndim = 1 THEN EncodeArray(obj)
    ELSE EncodeObject(obj)

\* ObjectJSONEncoder.default(obj), for an obj json cannot write natively
EncoderDefault(obj, np) ==
    IF IsDateTime(obj) THEN EncodeDateTime(obj)
    ELSE IF IsDate(obj) THEN EncodeDate(obj)
    ELSE IF np /\ obj.kind = "ndarray" /\ obj.ndim = 1 THEN EncodeArray(obj)
    ELSE EncodeObject(obj)

\* json.dumps(value, cls=ObjectJSONEncoder)
RECURSIVE JsonDumps(_, _)
JsonDumps(v, np) ==
    CASE v.kind = "int" -> JNum(v.n)
      [] v.kind = "str" -> JStr(v.s)
      [] v.kind = "dict" ->
            JObj([k \in DOMAIN v.items |-> JsonDumps(v.items[k], np)])
      [] OTHER -> JsonDumps(EncoderDefault(v, np), np)

(***************************************************************************)
(* ObjectJSONDecoder                                                       *)
(***************************************************************************)
Days == 1..MaxDay
Secs == 0..MaxSec
Zones == {"", "+0000", "+0100"}
Buffers == {"<i8|1,2", "<f8|3"}
Modules == {ClassTable[c].module : c \in ClassKeys}

\* datetime.datetime.strptime(s, '%Y-%m-%d').date()
DecodeDate(d) ==
    LET s == d["ISO8601_date"] IN
    IF s.kind # "str" THEN Raise("TypeError")
    ELSE IF \E day \in Days : IsoFormat(PDate(day)) = s.s
    THEN PDate(CHOOSE day \in Days : IsoFormat(PDate(day)) = s.s)
    ELSE Raise("ValueError")

\* dateutil.parser.parse(s)
DecodeDateTime(d) ==
    LET s == d["ISO8601_datetime"]
        Hit(p) == Strftime(PDateTime(p[1], p[2], p[3])) = s.s
    IN
    IF s.kind # "str" THEN Raise("TypeError")
    ELSE IF \E p \in Days \X Secs \X Zones : Hit(p)
    THEN LET p == CHOOSE p \in Days \X Secs \X Zones : Hit(p)
         IN PDateTime(p[1], p[2], p[3])
    ELSE IF \E day \in Days : IsoFormat(PDate(day)) = s.s
    THEN PDateTime(CHOOSE day \in Days : IsoFormat(PDate(day)) = s.s, 0, "")
    ELSE Raise("ValueError")

\* numpy.load of the latin-1 bytes json.loads(serialized) gives
DecodeArray(d, np) ==
    LET s == d["__ndarray__"] IN
    IF ~np THEN Raise("NameError")
    ELSE IF s.kind # "str" THEN Raise("TypeError")
    ELSE IF \E b \in Buffers : NumpySave(PArray(1, b)) = s.s
    THEN PArray(1, CHOOSE b \in Buffers : NumpySave(PArray(1, b)) = s.s)
    ELSE Raise("ValueError")

\* importlib.import_module(name) then resolve_attr(module, class_name)
ResolveAttr(module_name, class_name, np) ==
    IF module_name \notin Modules \/ (module_name = "numpy" /\ ~np)
    THEN Raise("ImportError")
    ELSE IF \E c \in ClassKeys : ModuleOf(c) = module_name /\ QualName(c) = class_name
    THEN [kind |-> "class",
          cls |-> CHOOSE c \in ClassKeys :
                     ModuleOf(c) = module_name /\ QualName(c) = class_name]
    ELSE Raise("AttributeError")

\* ObjectJSONDecoder.from_jsonable(value) as _decode_class applies it to an
\* attribute value: `'__ndarray__' in value` needs a container
AttrFromJsonable(value) ==
    IF value.kind \in {"str", "ndarray", "dict"} THEN value
    ELSE Raise("TypeError")

FirstRaise(f) ==
    IF \E k \in DOMAIN f : IsRaise(f[k])
    THEN f[CHOOSE k \in DOMAIN f : IsRaise(f[k])]
    ELSE PDict(f)

\* obj = cls(); obj.__dict__[attr] = from_jsonable(value) for each attr
BareRebuild(c, d) ==
    LET obj == Construct(c, Empty)
        vals == [k \in DOMAIN d |-> AttrFromJsonable(d[k])]
    IN
    IF IsRaise(obj) THEN obj
    ELSE IF obj.kind # "object"
    THEN (IF d = Empty THEN obj ELSE Raise("AttributeError"))
    ELSE IF IsRaise(FirstRaise(vals)) THEN FirstRaise(vals)
    ELSE PObject(c, vals @@ obj.attrs)

\* ObjectJSONDecoder._decode_class(d)
DecodeClass(d, np) ==
    LET cn == d["__class__"]
        mn == d["__module__"]
        rest == [k \in DOMAIN d \ {"__class__", "__module__"} |-> d[k]]
        r == ResolveAttr(mn.s, cn.s, np)
    IN
    IF cn.kind # "str" \/ mn.kind # "str" THEN Raise("TypeError")
    ELSE IF IsRaise(r) THEN r
    ELSE IF ~IsRaise(Construct(r.cls, rest)) THEN Construct(r.cls, rest)
    ELSE BareRebuild(r.cls, rest)

\* ObjectJSONDecoder.from_jsonable(d), the object_hook of every JSON object
FromJsonable(d, np) ==
    IF "__ndarray__" \in DOMAIN d THEN DecodeArray(d, np)
    ELSE IF "__class__" \in DOMAIN d /\ "__module__" \in DOMAIN d
    THEN DecodeClass(d, np)
    ELSE IF "ISO8601_datetime" \in DOMAIN d THEN DecodeDateTime(d)
    ELSE IF "ISO8601_date" \in DOMAIN d THEN DecodeDate(d)
    ELSE PDict(d)

\* json.loads(text, cls=ObjectJSONDecoder)
RECURSIVE JsonLoads(_, _)
JsonLoads(t, np) ==
    CASE t.j = "num" -> PInt(t.n)
      [] t.j = "str" -> PStr(t.s)
      [] OTHER ->
            LET dec == [k \in DOMAIN t.members |-> JsonLoads(t.members[k], np)] IN
            IF IsRaise(FirstRaise(dec)) THEN FirstRaise(dec)
            ELSE FromJsonable(dec, np)

\* json.dumps(value, cls=json.JSONEncoder): no hook for special values
RECURSIVE PlainDumps(_)
PlainDumps(v) ==
    CASE v.kind = "int" -> JNum(v.n)
      [] v.kind = "str" -> JStr(v.s)
      [] v.kind = "dict" ->
            LET enc == [k \in DOMAIN v.items |-> PlainDumps(v.items[k])] IN
            IF IsRaise(FirstRaise(enc)) THEN FirstRaise(enc) ELSE JObj(enc)
      [] OTHER -> Raise("TypeError")

\* json.loads(text, cls=json.JSONDecoder): no object_hook
RECURSIVE PlainLoads(_)
PlainLoads(t) ==
    CASE t.j = "num" -> PInt(t.n)
      [] t.j = "str" -> PStr(t.s)
      [] OTHER -> PDict([k \in DOMAIN t.members |-> PlainLoads(t.members[k])])

\* json.dumps(event_attrs, separators, sort_keys, cls=self.json_encoder_cls)
Dumps(encoder_cls, v, np) ==
    IF encoder_cls = "ObjectJSONEncoder" THEN JsonDumps(v, np) ELSE PlainDumps(v)

\* json.loads(event_attrs, cls=self.json_decoder_cls)
Loads(decoder_cls, t, np) ==
    IF t.kind # "json" THEN Raise("TypeError")
    ELSE IF decoder_cls = "ObjectJSONDecoder" THEN JsonLoads(t, np)
    ELSE PlainLoads(t)

(***************************************************************************)
(* Collaborators: the cipher and the topic functions of                    *)
(* eventsourcing.domain.model.events.                                      *)
(***************************************************************************)
CipherEncrypt(key, plain) == [kind |-> "cipher", key |-> key, plain |-> plain]

CipherDecrypt(key, data) ==
    IF data.kind = "cipher" /\ data.key = key THEN data.plain ELSE Raise("ValueError")

TopicFromDomainClass(c) == ModuleOf(c) \o "#" \o QualName(c)

ResolveDomainTopic(topic) ==
    IF \E c \in ClassKeys : TopicFromDomainClass(c) = topic
    THEN [kind |-> "class", cls |-> CHOOSE c \in ClassKeys : TopicFromDomainClass(c) = topic]
    ELSE Raise("TopicResolutionError")

(***************************************************************************)
(* Stored entity ids                                                       *)
(***************************************************************************)
\* '{}::{}'.format(id_prefix, entity_id)
make_stored_entity_id(id_prefix, entity_id) == id_prefix \o "::" \o entity_id

id_prefix_whole_qualname(c) == QualName(c)

\* domain_event_class.__qualname__.split('.')[0]
id_prefix_from_event_class(c) == ClassTable[c].qualname[1]

id_prefix_from_event(domain_event) == id_prefix_from_event_class(domain_event.cls)

\* Transcoder.StoredEvent
StoredEvent(event_id, stored_entity_id, event_topic, event_attrs) ==
    [kind |-> "stored", event_id |-> event_id, stored_entity_id |-> stored_entity_id,
     event_topic |-> event_topic, event_attrs |-> event_attrs]

\* a domain event object: its class and its __dict__
Event(c, dict) == [kind |-> "event", cls |-> c, dict |-> dict]

None == [kind |-> "none"]

(***************************************************************************)
(* State                                                                   *)
(***************************************************************************)
VARIABLES
    numpy,   \* the module global: TRUE when `import numpy` succeeded
    tr,      \* the shared Transcoder: its class attributes and instance fields
    cfg0,    \* the Transcoder as __init__ left it
    th,      \* per thread: the frame of the call it is in
    world    \* the threads that run and the inputs their callers pass

vars == <<numpy, tr, cfg0, th, world>>

Threads == {"t1", "t2"}

Frame0 ==
    [pc |-> "idle", op |-> "none",
     event |-> None,            \* serialize's argument, the caller's object
     arg |-> None,              \* that object as it was when the call began
     uuid4 |-> "",              \* what uuid.uuid4().hex gives this call
     stored |-> None,           \* deserialize's argument
     origin |-> None,           \* the event whose serialization `stored` is
     event_attrs |-> None, event_id |-> None, stored_entity_id |-> "",
     event_topic |-> "", event_class |-> "",
     did |-> {},                \* what deserialize has attempted so far
     text |-> None,             \* what json.loads was given
     loaded |-> None,           \* what json.loads returned or raised
     result |-> None]

Finish(f, result) == [f EXCEPT !.pc = "done", !.result = result]

Without(d, k) == [a \in DOMAIN d \ {k} |-> d[a]]

(***************************************************************************)
(* Transcoder.serialize, statement group by statement group.  Each step    *)
(* maps the transcoder and the frame to the transcoder and the frame.      *)
(***************************************************************************)
CallerEventAfterPopAliased(event, uuid1) ==
    IF uuid1 THEN [event EXCEPT !.dict = Without(event.dict, "domain_event_id")]
    ELSE event

\* lines 59-63: the caller's object once serialize has popped the id from
\* event_attrs, which is a copy of its __dict__
CallerEventAfterPop(event, uuid1) == event

\* lines 59-69: copy __dict__, get or make the event id, key and topic
SerBeginStep(t, f) ==
    LET event_attrs == f.event.dict
        uuid1 == t.serialize_with_uuid1
    IN
    IF uuid1 /\ "domain_event_id" \notin DOMAIN event_attrs
    THEN [tr |-> t, f |-> Finish(f, Raise("KeyError"))]
    ELSE [tr |-> t,
          f |-> [f EXCEPT
              !.event_attrs = PDict(IF uuid1 THEN Without(event_attrs, "domain_event_id")
                                    ELSE event_attrs),
              !.event_id = IF uuid1 THEN event_attrs["domain_event_id"]
                           ELSE PStr(f.uuid4),
              !.stored_entity_id =
                  make_stored_entity_id(id_prefix_from_event(f.event),
                                        f.event.dict["entity_id"].s),
              !.event_topic = TopicFromDomainClass(f.event.cls),
              !.event = CallerEventAfterPop(f.event, uuid1),
              !.pc = "ser_enc_check"]]

\* lines 72-74
SerEncCheckStep(t, f) ==
    [tr |-> t,
     f |-> [f EXCEPT !.pc = IF t.serialize_without_json THEN "ser_return"
                            ELSE IF t.json_encoder_cls = "None" THEN "ser_enc_set"
                            ELSE "ser_dumps"]]

\* line 75
SerEncSetStep(t, f) ==
    [tr |-> [t EXCEPT !.json_encoder_cls = "ObjectJSONEncoder"],
     f |-> [f EXCEPT !.pc = "ser_dumps"]]

\* line 77
SerDumpsStep(t, f) ==
    LET text == Dumps(t.json_encoder_cls, f.event_attrs, numpy) IN
    [tr |-> t,
     f |-> IF IsRaise(text) THEN Finish(f, text)
           ELSE [f EXCEPT !.event_attrs = text, !.pc = "ser_encrypt"]]

\* self.always_encrypt or domain_event.__class__.always_encrypt
EncryptionApplies(t, c) == t.always_encrypt \/ ClassTable[c].always_encrypt

\* lines 79-82
SerEncryptStep(t, f) ==
    [tr |-> t,
     f |-> IF EncryptionApplies(t, f.event.cls)
           THEN IF t.cipher = "None" THEN Finish(f, Raise("ValueError"))
                ELSE [f EXCEPT !.event_attrs = CipherEncrypt(t.cipher, f.event_attrs),
                               !.pc = "ser_return"]
           ELSE [f EXCEPT !.pc = "ser_return"]]

\* lines 85-90
SerReturnStep(t, f) ==
    [tr |-> t,
     f |-> Finish(f, StoredEvent(f.event_id, f.stored_entity_id, f.event_topic,
                                 f.event_attrs))]

(***************************************************************************)
(* Transcoder.deserialize                                                  *)
(***************************************************************************)
\* isinstance(event_class, type)
IsType(c) == ClassTable[c].is_type
AnyClassIsDomainEvent(c) == TRUE

\* issubclass(event_class, DomainEvent)
IsDomainEventClass(c) == ClassTable[c].is_event

\* lines 96-108
DesResolveStep(t, f) ==
    LET r == ResolveDomainTopic(f.stored.event_topic) IN
    [tr |-> t,
     f |-> IF IsRaise(r) THEN Finish(f, r)
           ELSE IF ~IsType(r.cls) THEN Finish(f, Raise("ValueError"))
           ELSE IF ~IsDomainEventClass(r.cls) THEN Finish(f, Raise("ValueError"))
           ELSE [f EXCEPT !.event_class = r.cls,
                          !.event_attrs = f.stored.event_attrs,
                          !.pc = "des_dec_check"]]

\* lines 109-111
DesDecCheckStep(t, f) ==
    [tr |-> t,
     f |-> [f EXCEPT !.pc = IF t.serialize_without_json THEN "des_finish"
                            ELSE IF t.json_decoder_cls = "None" THEN "des_dec_set"
                            ELSE "des_decrypt"]]

DesDecSetStepWrongField(t, f) ==
    [tr |-> [t EXCEPT !.json_encoder_cls = "ObjectJSONDecoder"],
     f |-> [f EXCEPT !.pc = "des_decrypt"]]

\* line 112
DesDecSetStep(t, f) ==
    [tr |-> [t EXCEPT !.json_decoder_cls = "ObjectJSONDecoder"],
     f |-> [f EXCEPT !.pc = "des_decrypt"]]

\* lines 114-117
DesDecryptStep(t, f) ==
    LET plain == CipherDecrypt(t.cipher, f.event_attrs) IN
    [tr |-> t,
     f |-> IF EncryptionApplies(t, f.event_class)
           THEN IF t.cipher = "None" THEN Finish(f, Raise("ValueError"))
                ELSE IF IsRaise(plain)
                THEN Finish([f EXCEPT !.did = @ \cup {"decrypt"}], plain)
                ELSE [f EXCEPT !.event_attrs = plain, !.did = @ \cup {"decrypt"},
                               !.pc = "des_loads"]
           ELSE [f EXCEPT !.pc = "des_loads"]]

\* line 119
DesLoadsStep(t, f) ==
    LET v == Loads(t.json_decoder_cls, f.event_attrs, numpy)
        g == [f EXCEPT !.did = @ \cup {"loads"}, !.text = f.event_attrs, !.loaded = v]
    IN
    [tr |-> t,
     f |-> IF IsRaise(v) THEN Finish(g, v)
           ELSE [g EXCEPT !.event_attrs = v, !.pc = "des_finish"]]

\* lines 122-133: set the event id, object.__new__ and __dict__.update
DesFinishStep(t, f) ==
    LET is_dict == f.event_attrs.kind = "dict"
        attrs == IF t.serialize_with_uuid1
                 THEN ("domain_event_id" :> f.stored.event_id) @@ f.event_attrs.items
                 ELSE f.event_attrs.items
        g == [f EXCEPT !.did = @ \cup {"construct"}]
    IN
    [tr |-> t,
     f |-> IF t.serialize_with_uuid1 /\ ~is_dict THEN Finish(f, Raise("TypeError"))
           ELSE IF ~is_dict THEN Finish(g, Raise("ValueError"))
           ELSE Finish(g, Event(f.event_class, attrs))]

\* the statement group a frame is at
StepOf(t, f) ==
    CASE f.pc = "ser_begin" -> SerBeginStep(t, f)
      [] f.pc = "ser_enc_check" -> SerEncCheckStep(t, f)
      [] f.pc = "ser_enc_set" -> SerEncSetStep(t, f)
      [] f.pc = "ser_dumps" -> SerDumpsStep(t, f)
      [] f.pc = "ser_encrypt" -> SerEncryptStep(t, f)
      [] f.pc = "ser_return" -> SerReturnStep(t, f)
      [] f.pc = "des_resolve" -> DesResolveStep(t, f)
      [] f.pc = "des_dec_check" -> DesDecCheckStep(t, f)
      [] f.pc = "des_dec_set" -> DesDecSetStep(t, f)
      [] f.pc = "des_decrypt" -> DesDecryptStep(t, f)
      [] f.pc = "des_loads" -> DesLoadsStep(t, f)
      [] f.pc = "des_finish" -> DesFinishStep(t, f)

(***************************************************************************)
(* Inputs: the transcoder configurations, the domain events callers pass   *)
(* to serialize, and stored events written elsewhere that callers pass to  *)
(* deserialize.                                                            *)
(***************************************************************************)
Configs ==
    [serialize_without_json : BOOLEAN, serialize_with_uuid1 : BOOLEAN,
     json_encoder_cls : {"None", "ObjectJSONEncoder"},
     json_decoder_cls : {"None", "ObjectJSONDecoder"},
     cipher : {"None", "k1"}, always_encrypt : BOOLEAN]

Uuid4s == {"r1", "r2"}

ClassTag(c) == ("__class__" :> PStr(QualName(c))) @@ ("__module__" :> PStr(ModuleOf(c)))

TestValues ==
    {PInt(n) : n \in 0..MaxInt}
    \cup {PStr("s")}
    \cup {PDateTime(1, p[1], p[2]) : p \in Secs \X Zones}
    \cup {PDate(d) : d \in Days}
    \cup {PArray(1, b) : b \in Buffers} \cup {PArray(2, "<i8|1,2")}
    \cup {PObject("Point", "x" :> PInt(1)), PObject("Bag", Empty),
          PObject("Bag", "x" :> PInt(1)), PObject("Opt", "y" :> PInt(0)),
          PObject("Opt", "y" :> PInt(1))}
    \cup {PDict("k" :> PInt(1)), PDict("k" :> PDate(1)),
          PDict("ISO8601_date" :> PStr("2020-01-01")),
          PDict("ISO8601_date" :> PStr("s")),
          PDict("ISO8601_datetime" :> PStr("s")),
          PDict("__ndarray__" :> PStr("s")),
          PDict(ClassTag("Bag") @@ ("x" :> PStr("s")))}

EntityIds == {"e" \o Digit[i + 1] : i \in 1..MaxEntity}

EventDict(entity_id, v) ==
    ("entity_id" :> PStr(entity_id)) @@ ("domain_event_id" :> PStr("u1")) @@ ("a" :> v)

EventClasses == {c \in ClassKeys : ClassTable[c].is_type /\ ClassTable[c].is_event}

EventInputs ==
    {Event(c, EventDict(e, v)) : c \in EventClasses, e \in EntityIds, v \in TestValues}

JTag(c) == ("__class__" :> JStr(QualName(c))) @@ ("__module__" :> JStr(ModuleOf(c)))

CraftedPayloads ==
    {JObj(("entity_id" :> JStr("e1")) @@ ("a" :> a)) :
        a \in {JObj(JTag("Point") @@ ("x" :> JNum(1))),
               JObj(JTag("Point") @@ ("z" :> JStr("s"))),
               JObj(JTag("Bag") @@ ("x" :> JStr("s"))),
               JObj(JTag("Bag") @@ ("x" :> JNum(1))),
               JObj(JTag("Opt") @@ ("x" :> JStr("s")))}}
    \cup {JNum(1), PDict(("entity_id" :> PStr("e1")) @@ ("a" :> PInt(1)))}

Topics ==
    {TopicFromDomainClass(c) : c \in {"Created", "Point", "helper"}}
    \cup {"m.example#Example.Missing"}

CraftedRecords ==
    {StoredEvent(PStr("u1"), "Example::e1", TopicFromDomainClass("Created"), p) :
        p \in CraftedPayloads}
    \cup {StoredEvent(PStr("u1"), "Example::e1", topic,
                      JObj(("entity_id" :> JStr("e1")) @@ ("a" :> JNum(1)))) :
            topic \in Topics}

(***************************************************************************)
(* Initial states                                                          *)
(***************************************************************************)
InitTranscoder ==
    /\ numpy \in BOOLEAN
    /\ tr \in Configs
    /\ cfg0 = tr
    /\ th = [t \in Threads |-> Frame0]

\* one caller, every input
Init ==
    /\ InitTranscoder
    /\ world = [threads |-> {"t1"}, events |-> EventInputs, records |-> CraftedRecords]

\* two callers sharing the transcoder
InitShared ==
    /\ InitTranscoder
    /\ world = [threads |-> Threads,
                events |-> {Event(c, EventDict("e1", PDate(1))) : c \in EventClasses},
                records |-> {StoredEvent(PStr("u1"), "Example::e1",
                                         TopicFromDomainClass("Created"),
                                         JObj(("entity_id" :> JStr("e1"))
                                              @@ ("a" :> JObj("ISO8601_date" :> JStr("2020-01-01")))))}]

(***************************************************************************)
(* Actions                                                                 *)
(***************************************************************************)
\* a caller invokes transcoder.serialize(domain_event)
CallSerialize(t) ==
    /\ t \in world.threads
    /\ th[t].pc = "idle"
    /\ \E e \in world.events :
       \E u \in (IF tr.serialize_with_uuid1 THEN {""} ELSE Uuid4s) :
          th' = [th EXCEPT ![t] = [Frame0 EXCEPT !.pc = "ser_begin", !.op = "serialize",
                                                 !.event = e, !.arg = e, !.uuid4 = u]]
    /\ UNCHANGED <<numpy, tr, cfg0, world>>

\* a caller passes the stored event it just got back to transcoder.deserialize
CallDeserializeOwn(t) ==
    /\ th[t].pc = "done"
    /\ th[t].op = "serialize"
    /\ th[t].result.kind = "stored"
    /\ th' = [th EXCEPT ![t] = [Frame0 EXCEPT !.pc = "des_resolve", !.op = "deserialize",
                                              !.stored = th[t].result,
                                              !.origin = th[t].arg]]
    /\ UNCHANGED <<numpy, tr, cfg0, world>>

\* a caller passes a stored event read from the store to transcoder.deserialize
CallDeserializeStored(t) ==
    /\ t \in world.threads
    /\ th[t].pc = "idle"
    /\ \E rec \in world.records :
          th' = [th EXCEPT ![t] = [Frame0 EXCEPT !.pc = "des_resolve",
                                                 !.op = "deserialize", !.stored = rec]]
    /\ UNCHANGED <<numpy, tr, cfg0, world>>

\* the caller takes the result (or the exception) and drops the frame
Return(t) ==
    /\ th[t].pc = "done"
    /\ th' = [th EXCEPT ![t] = Frame0]
    /\ UNCHANGED <<numpy, tr, cfg0, world>>

Apply(t, s) ==
    /\ tr' = s.tr
    /\ th' = [th EXCEPT ![t] = s.f]
    /\ UNCHANGED <<numpy, cfg0, world>>

SerBegin(t) == th[t].pc = "ser_begin" /\ Apply(t, SerBeginStep(tr, th[t]))
SerEncCheck(t) == th[t].pc = "ser_enc_check" /\ Apply(t, SerEncCheckStep(tr, th[t]))
SerEncSet(t) == th[t].pc = "ser_enc_set" /\ Apply(t, SerEncSetStep(tr, th[t]))
SerDumps(t) == th[t].pc = "ser_dumps" /\ Apply(t, SerDumpsStep(tr, th[t]))
SerEncrypt(t) == th[t].pc = "ser_encrypt" /\ Apply(t, SerEncryptStep(tr, th[t]))
SerReturn(t) == th[t].pc = "ser_return" /\ Apply(t, SerReturnStep(tr, th[t]))
DesResolve(t) == th[t].pc = "des_resolve" /\ Apply(t, DesResolveStep(tr, th[t]))
DesDecCheck(t) == th[t].pc = "des_dec_check" /\ Apply(t, DesDecCheckStep(tr, th[t]))
DesDecSet(t) == th[t].pc = "des_dec_set" /\ Apply(t, DesDecSetStep(tr, th[t]))
DesDecrypt(t) == th[t].pc = "des_decrypt" /\ Apply(t, DesDecryptStep(tr, th[t]))
DesLoads(t) == th[t].pc = "des_loads" /\ Apply(t, DesLoadsStep(tr, th[t]))
DesFinish(t) == th[t].pc = "des_finish" /\ Apply(t, DesFinishStep(tr, th[t]))

Next ==
    \/ \E t \in Threads : CallSerialize(t)
    \/ \E t \in Threads : CallDeserializeOwn(t)
    \/ \E t \in Threads : CallDeserializeStored(t)
    \/ \E t \in Threads : Return(t)
    \/ \E t \in Threads : SerBegin(t)
    \/ \E t \in Threads : SerEncCheck(t)
    \/ \E t \in Threads : SerEncSet(t)
    \/ \E t \in Threads : SerDumps(t)
    \/ \E t \in Threads : SerEncrypt(t)
    \/ \E t \in Threads : SerReturn(t)
    \/ \E t \in Threads : DesResolve(t)
    \/ \E t \in Threads : DesDecCheck(t)
    \/ \E t \in Threads : DesDecSet(t)
    \/ \E t \in Threads : DesDecrypt(t)
    \/ \E t \in Threads : DesLoads(t)
    \/ \E t \in Threads : DesFinish(t)

Spec == Init /\ [][Next]_vars

SpecShared == InitShared /\ [][Next]_vars

(***************************************************************************)
(* A call run alone on a transcoder: the statement groups in program       *)
(* order, with no other thread in between.                                 *)
(***************************************************************************)
RECURSIVE RunAlone(_, _)
RunAlone(t, f) ==
    IF f.pc = "done" THEN f
    ELSE LET s == StepOf(t, f) IN RunAlone(s.tr, s.f)

\* the frame a call started with
CallFrame(f) ==
    IF f.op = "serialize"
    THEN [Frame0 EXCEPT !.pc = "ser_begin", !.op = "serialize", !.event = f.arg,
                        !.arg = f.arg, !.uuid4 = f.uuid4]
    ELSE [Frame0 EXCEPT !.pc = "des_resolve", !.op = "deserialize",
                        !.stored = f.stored, !.origin = f.origin]

\* a finished deserialize of a record this transcoder serialized
RoundTripDone(f) == f.op = "deserialize" /\ f.origin # None /\ f.pc = "done"

\* json.loads has run in a deserialize of a record this transcoder serialized
RoundTripLoaded(f) == f.op = "deserialize" /\ f.origin # None /\ f.text # None

(***************************************************************************)
(* C1: deserialize(serialize(e)) on the same transcoder returns an object  *)
(* of e's class whose attributes equal e's, domain_event_id included, in   *)
(* every configuration.                                                    *)
(***************************************************************************)
C1_RoundTrip ==
    \A t \in Threads : RoundTripDone(th[t]) => th[t].result = th[t].origin

(***************************************************************************)
(* C2: when encryption applies, serialize returns a StoredEvent whose      *)
(* event_attrs is cipher.encrypt's output, or fails when no cipher is      *)
(* configured; it never returns the unencrypted payload.                   *)
(***************************************************************************)
C2_NoCleartextAtRest ==
    \A t \in Threads :
        LET f == th[t] IN
        (f.op = "serialize" /\ f.pc = "done" /\ EncryptionApplies(cfg0, f.arg.cls)) =>
            /\ cfg0.cipher = "None" => IsRaise(f.result)
            /\ f.result.kind = "stored" =>
                   /\ f.result.event_attrs.kind = "cipher"
                   /\ f.result.event_attrs.key = cfg0.cipher

(***************************************************************************)
(* C3: deserialize returns an event only if event_topic resolves to a      *)
(* subclass of DomainEvent; otherwise it fails, before any decryption,     *)
(* decoding or construction is attempted.                                  *)
(***************************************************************************)
TopicIsDomainEvent(topic) ==
    LET r == ResolveDomainTopic(topic) IN
    /\ ~IsRaise(r)
    /\ ClassTable[r.cls].is_type
    /\ ClassTable[r.cls].is_event

C3_TopicChecked ==
    \A t \in Threads :
        LET f == th[t] IN
        (f.op = "deserialize" /\ ~TopicIsDomainEvent(f.stored.event_topic)) =>
            /\ f.pc \in {"des_resolve", "done"}
            /\ f.did = {}
            /\ f.text = None
            /\ f.pc = "done" => IsRaise(f.result)

C3_Witness ==
    \E t \in Threads :
        /\ th[t].op = "deserialize"
        /\ th[t].pc = "done"
        /\ th[t].stored.event_topic = TopicFromDomainClass("Point")
        /\ th[t].result = Raise("ValueError")
        /\ th[t].did = {}

(***************************************************************************)
(* C4: the stored_entity_id of every record serialize returns is           *)
(* '<prefix>::<entity_id>', prefix the first component of the event        *)
(* class's qualified name, whatever the configuration and earlier calls.   *)
(***************************************************************************)
C4_StreamKey ==
    \A t \in Threads :
        LET f == th[t] IN
        (f.op = "serialize" /\ f.pc = "done" /\ f.result.kind = "stored") =>
            f.result.stored_entity_id =
                ClassTable[f.arg.cls].qualname[1] \o "::" \o f.arg.dict["entity_id"].s

C4_Witness ==
    \E t \in Threads :
        /\ th[t].op = "serialize"
        /\ th[t].pc = "done"
        /\ th[t].arg.cls = "Secret"
        /\ th[t].result.kind = "stored"
        /\ th[t].result.stored_entity_id = "Vault::e1"

(***************************************************************************)
(* C5: serialize never mutates the caller's event: during the call and     *)
(* after it returns or fails, the event holds the keys and values it held  *)
(* before, domain_event_id included.                                       *)
(***************************************************************************)
C5_CallerEventUntouched ==
    \A t \in Threads : th[t].op = "serialize" => th[t].event = th[t].arg

C5_Witness ==
    \E t \in Threads :
        /\ th[t].op = "serialize"
        /\ th[t].pc = "done"
        /\ tr.serialize_with_uuid1
        /\ th[t].result.kind = "stored"
        /\ th[t].result.event_id = PStr("u1")
        /\ "domain_event_id" \in DOMAIN th[t].event.dict

(***************************************************************************)
(* C6 as stated: no call changes any field of the transcoder.              *)
(***************************************************************************)
C6_NoFieldChanges == [][tr' = tr]_vars

(***************************************************************************)
(* C6 as amended: calls change no field but json_encoder_cls and           *)
(* json_decoder_cls, each only from None to the default codec class, and   *)
(* under any interleaving every call returns what it returns when run      *)
(* alone on a transcoder as constructed (with the same uuid4 draw).        *)
(***************************************************************************)
C6_ResultsAsAlone ==
    /\ tr.serialize_without_json = cfg0.serialize_without_json
    /\ tr.serialize_with_uuid1 = cfg0.serialize_with_uuid1
    /\ tr.cipher = cfg0.cipher
    /\ tr.always_encrypt = cfg0.always_encrypt
    /\ tr.json_encoder_cls \in {cfg0.json_encoder_cls, "ObjectJSONEncoder"}
    /\ tr.json_decoder_cls \in {cfg0.json_decoder_cls, "ObjectJSONDecoder"}
    /\ \A t \in Threads :
          th[t].pc = "done" => th[t].result = RunAlone(cfg0, CallFrame(th[t])).result

C6_Witness ==
    /\ tr.json_encoder_cls # cfg0.json_encoder_cls
    /\ tr.json_decoder_cls # cfg0.json_decoder_cls
    /\ th["t1"].pc = "done" /\ th["t1"].op = "serialize" /\ th["t1"].result.kind = "stored"
    /\ th["t2"].pc = "done" /\ th["t2"].op = "deserialize" /\ th["t2"].result.kind = "event"

(***************************************************************************)
(* C7: a plain mapping, with or without a reserved tag key among its       *)
(* ordinary data, encodes with ObjectJSONEncoder and decodes with          *)
(* ObjectJSONDecoder to that same mapping.                                 *)
(***************************************************************************)
C7_TagNonInterference ==
    \A t \in Threads :
        LET f == th[t] IN
        (RoundTripLoaded(f) /\ f.origin.dict["a"].kind = "dict") =>
            /\ ~IsRaise(f.loaded)
            /\ f.loaded.items["a"] = f.origin.dict["a"]

(***************************************************************************)
(* C8: the encoder's hooks are tried in the order timestamp, date,         *)
(* one-dimensional array, generic object: a timestamp is tagged and        *)
(* decoded as a timestamp, a date as a date, and an array the array hook   *)
(* does not take is encoded by the generic-object hook, not refused.       *)
(***************************************************************************)
TagKeysOf(json) == IF json.j = "obj" THEN DOMAIN json.members ELSE {}

ExpectedTag(v, np) ==
    CASE v.kind = "datetime" -> {"ISO8601_datetime"}
      [] v.kind = "date" -> {"ISO8601_date"}
      [] v.kind = "ndarray" /\ np /\ v.ndim = 1 -> {"__ndarray__"}
      [] OTHER -> {"__class__", "__module__"}

IsSpecial(v) == v.kind \in {"datetime", "date", "ndarray", "object"}

C8_HookPriority ==
    \A t \in Threads :
        LET f == th[t] IN
        /\ (f.op = "serialize" /\ f.pc = "ser_encrypt" /\ IsSpecial(f.arg.dict["a"])) =>
               TagKeysOf(f.event_attrs.members["a"]) = ExpectedTag(f.arg.dict["a"], numpy)
        /\ (f.op = "serialize" /\ f.pc = "done" /\ IsRaise(f.result)) =>
               (EncryptionApplies(cfg0, f.arg.cls) /\ cfg0.cipher = "None")
        /\ (RoundTripLoaded(f) /\ f.origin.dict["a"].kind \in {"datetime", "date"}) =>
               /\ ~IsRaise(f.loaded)
               /\ f.loaded.items["a"].kind = f.origin.dict["a"].kind

C8_Witness ==
    \E t \in Threads :
        /\ RoundTripLoaded(th[t])
        /\ th[t].origin.dict["a"].kind = "datetime"
        /\ TagKeysOf(th[t].text.members["a"]) = {"ISO8601_datetime"}
        /\ th[t].loaded.kind = "dict"
        /\ th[t].loaded.items["a"].kind = "datetime"

(***************************************************************************)
(* C9: a value no other hook takes is encoded as a tagged object from      *)
(* which the decoder rebuilds an object of the same type with the same     *)
(* attributes and values.                                                  *)
(***************************************************************************)
C9_GenericObjectRoundTrip ==
    \A t \in Threads :
        LET f == th[t] IN
        (RoundTripLoaded(f) /\ f.origin.dict["a"].kind = "object") =>
            /\ ~IsRaise(f.loaded)
            /\ f.loaded.items["a"] = f.origin.dict["a"]

(***************************************************************************)
(* C10: when the constructor call with the decoded keyword attributes      *)
(* raises, the decoder returns a bare instance carrying exactly the        *)
(* decoded attributes, and the failure never reaches the caller.           *)
(***************************************************************************)
IsClassTag(json) ==
    /\ json.j = "obj"
    /\ {"__class__", "__module__"} \subseteq DOMAIN json.members
    /\ "__ndarray__" \notin DOMAIN json.members
    /\ json.members["__class__"].j = "str"
    /\ json.members["__module__"].j = "str"
    /\ ~IsRaise(ResolveAttr(json.members["__module__"].s, json.members["__class__"].s,
                            numpy))

TagClass(json) ==
    ResolveAttr(json.members["__module__"].s, json.members["__class__"].s, numpy).cls

TagKwargs(json) ==
    [k \in DOMAIN json.members \ {"__class__", "__module__"} |->
        JsonLoads(json.members[k], numpy)]

C10_TwoTierReconstruction ==
    \A t \in Threads :
        LET f == th[t] IN
        (/\ f.op = "deserialize"
         /\ f.text # None
         /\ f.text.kind = "json"
         /\ f.text.j = "obj"
         /\ "a" \in DOMAIN f.text.members
         /\ IsClassTag(f.text.members["a"])
         /\ IsRaise(Construct(TagClass(f.text.members["a"]),
                              TagKwargs(f.text.members["a"])))) =>
            /\ ~IsRaise(f.loaded)
            /\ f.loaded.items["a"] =
                   PObject(TagClass(f.text.members["a"]), TagKwargs(f.text.members["a"]))

====
